---- MODULE Spec2Model ----
(***************************************************************************)
(* Widget constructors (lib/streamlit/elements/widgets/button.py) and the  *)
(* navigation registrar (lib/streamlit/commands/navigation.py).            *)
(*                                                                         *)
(* Conventions                                                             *)
(*   - Python None for an optional value is the empty sequence <<>>, and a *)
(*     present value x is <<x>>; an optional list is a record              *)
(*     [is_none, items].                                                   *)
(*   - Python strings that the code edits (str.replace, path joins, prefix *)
(*     tests) are sequences of pieces: titles and labels of characters,    *)
(*     paths and URLs of segments such as "/app/" and "a.py"; the empty    *)
(*     string is <<>>. Strings that are only compared are strings.         *)
(*   - A raised StreamlitAPIException is the field raised = TRUE of the    *)
(*     call record, with error naming the raise statement.                 *)
(*   - events is the trace of calls into the runtime made by the last API  *)
(*     call (set_pages, get_page_script, get_pages, compute_widget_id,     *)
(*     register_widget, enqueue), in program order.                        *)
(***************************************************************************)
EXTENDS Integers, Sequences, FiniteSets, TLC

VARIABLES
    ctx,          \* get_script_run_ctx(): <<>> or <<[active_script_hash, main_script_path]>>
    pagesTable,   \* ctx.pages_manager's page table: a dict in insertion order
    queue,        \* the forward messages enqueued in this script run
    events,       \* runtime calls made by the last API call, in order
    call,         \* the last API call: its arguments and its outcome
    prev,         \* the button-group call before the last one, when two are followed
    runtime,      \* runtime.exists()
    mediaFiles    \* the files added to the runtime's media file manager

vars == <<ctx, pagesTable, queue, events, call, prev, runtime, mediaFiles>>

\* ---------------------------------------------------------------- bounds

\* Longest page list (over all sections) passed to navigation.
MaxPages == 3

\* ---------------------------------------------------------------- helpers

SeqUpTo(S, n) == UNION {[1..k -> S] : k \in 0..n}

None == <<>>

Some(x) == <<x>>

\* str.replace(old, new) on a string held as a sequence of characters.
replace(s, old, new) == [i \in 1..Len(s) |-> IF s[i] = old THEN new ELSE s[i]]

Idle == [op |-> "idle"]

\* streamlit.errors.StreamlitAPIException
APIException == "StreamlitAPIException"

\* ------------------------------------------------------------ navigation

\* Page titles (StreamlitPage.title), as character sequences.
Titles == {<<"H", "i">>, <<"M", "y", " ", "P">>}

\* Page hashes (StreamlitPage._script_hash).
Hashes == {"h1", "h2", "h3"}

\* StreamlitPage._page: a Path (its string) or a callable (no path).
PagePathOf == [h \in Hashes |->
    CASE h = "h1" -> Some(<<"/app/", "a.py">>)
      [] h = "h2" -> Some(<<"/app/", "pages/", "b.py">>)
      [] OTHER    -> None]

\* The StreamlitPage objects a script passes to navigation.
PageObjs == {[title |-> t, script_hash |-> h, default |-> d,
              page |-> PagePathOf[h], can_be_called |-> FALSE] :
             t \in Titles, h \in Hashes, d \in BOOLEAN}

\* The pages argument: a list of pages, or a dict header -> list of pages
\* (held as a sequence of sections in the dict's order). The dict forms are
\* the empty dict and the two-section dicts that split ps at cut.
pages_arg(is_list, ps, cut) ==
    IF is_list THEN [is_list |-> TRUE, items |-> ps, sections |-> <<>>]
    ELSE IF cut > Len(ps) THEN [is_list |-> FALSE, items |-> <<>>, sections |-> <<>>]
    ELSE [is_list |-> FALSE, items |-> <<>>,
          sections |-> <<[header |-> "Main", pages |-> SubSeq(ps, 1, cut)],
                         [header |-> "More", pages |-> SubSeq(ps, cut + 1, Len(ps))]>>]

Positions == {"sidebar", "hidden"}

\* What pages_manager.get_page_script may answer: nothing, or a page info
\* (only its page_script_hash is read), of a listed page or of another one.
FoundPages == {None} \cup {Some([page_script_hash |-> h]) : h \in Hashes \cup {"hx"}}

RECURSIVE pages_from_nav_sections(_)
pages_from_nav_sections(nav_sections) ==
    IF nav_sections = <<>> THEN <<>>
    ELSE Head(nav_sections).pages \o pages_from_nav_sections(Tail(nav_sections))

\* navigation.py:98
nav_sections_of(pages) ==
    IF pages.is_list THEN <<[header |-> "", pages |-> pages.items]>> ELSE pages.sections

\* navigation.py:122-125
script_path_of(page) == IF page.page # None THEN page.page[1] ELSE <<>>

\* navigation.py:135-141 (the icon is copied unchanged and is left out)
page_info(page) ==
    [page_script_hash |-> page.script_hash,
     page_name        |-> page.title,
     script_path      |-> script_path_of(page),
     url_pathname     |-> replace(page.title, " ", "_")]

hash_in_table_never(script_hash, table) == FALSE

\* navigation.py:128
hash_in_table(script_hash, table) ==
    \E k \in 1..Len(table) : table[k].page_script_hash = script_hash

no_pages_unchecked(page_list) == FALSE

\* navigation.py:101
no_pages(page_list) == page_list = <<>>

second_default_unchecked(page, default_page) == FALSE

\* navigation.py:114-115
second_default(page, default_page) == page.default /\ default_page # 0

\* navigation.py:112-141: the nested loop over the sections' pages, in order.
\* default_page is the index (in the flattened list) of the page kept as
\* default, 0 for None; the loop stops at the first raise.
RECURSIVE scan_pages(_, _, _, _)
scan_pages(page_list, i, default_page, table) ==
    IF i > Len(page_list)
    THEN [error |-> "", default_page |-> default_page, table |-> table]
    ELSE LET page == page_list[i] IN
         IF second_default(page, default_page)
         THEN [error |-> "multiple_default", default_page |-> default_page, table |-> table]
         ELSE LET dp == IF page.default THEN i ELSE default_page IN
              IF hash_in_table(page.script_hash, table)
              THEN [error |-> "duplicate_title", default_page |-> dp, table |-> table]
              ELSE scan_pages(page_list, i + 1, dp, Append(table, page_info(page)))

pick_default_first(scan) == 1

\* navigation.py:143-145
pick_default(scan) == IF scan.default_page = 0 THEN 1 ELSE scan.default_page

\* navigation.py:152-161: the app_pages of the navigation message.
RECURSIVE app_pages_of(_, _)
app_pages_of(nav_sections, objs) ==
    IF nav_sections = <<>> THEN <<>>
    ELSE LET n == Len(Head(nav_sections).pages) IN
         [i \in 1..n |->
            [page_script_hash |-> objs[i].script_hash,
             page_name        |-> objs[i].title,
             is_default       |-> objs[i].default,
             section_header   |-> Head(nav_sections).header,
             url_pathname     |-> replace(objs[i].title, " ", "_")]]
         \o app_pages_of(Tail(nav_sections), SubSeq(objs, n + 1, Len(objs)))

matching_page_any(page_list, found_page) == IF found_page = None THEN 0 ELSE 1

\* navigation.py:169-176: the first listed page with found_page's hash, 0 for None.
matching_page(page_list, found_page) ==
    IF found_page = None THEN 0
    ELSE LET matching_pages ==
                 {i \in 1..Len(page_list) :
                    page_list[i].script_hash = found_page[1].page_script_hash}
         IN IF matching_pages = {} THEN 0
            ELSE CHOOSE i \in matching_pages : \A j \in matching_pages : i <= j

\* navigation.py:47-50
page_not_found_msg == [msg_type |-> "page_not_found", page_name |-> ""]

\* navigation.py:147-151
position_of(position) == IF position = "hidden" THEN "HIDDEN" ELSE "SIDEBAR"

ordain_nobody(objs, i) == objs

\* navigation.py:183
ordain(objs, i) == [objs EXCEPT ![i].can_be_called = TRUE]

no_ctx_never(c) == FALSE

\* navigation.py:94-96
no_ctx(c) == c = None

nav_error_after_set_pages(quiet, error, table) ==
    [quiet EXCEPT !.raised = TRUE, !.exc = APIException, !.error = error,
                  !.set_pages = Some(table), !.events = <<"set_pages">>]

\* navigation.py:102-104, 116-119, 129-133: the three raise statements. The
\* table built so far is the local pagehash_to_pageinfo, which reaches
\* set_pages at line 164 only.
nav_error(quiet, error, table) ==
    [quiet EXCEPT !.raised = TRUE, !.exc = APIException, !.error = error]

\* The outcome of navigation(pages, position=position) when the pages manager
\* answers get_page_script with found_page: what is raised or returned, the
\* page objects after the call, and the runtime calls made.
navigation(c, pages, position, found_page) ==
    LET nav_sections == nav_sections_of(pages)
        page_list    == pages_from_nav_sections(nav_sections)
        quiet == [raised |-> FALSE, exc |-> "", error |-> "", ret |-> 0, objs |-> page_list,
                  set_pages |-> None, found |-> None, msgs |-> <<>>, events |-> <<>>]
    IN
    IF no_ctx(c) THEN quiet
    ELSE IF no_pages(page_list)
    THEN nav_error(quiet, "no_pages", <<>>)
    ELSE LET scan == scan_pages(page_list, 1, 0, <<>>) IN
    IF scan.error # ""
    THEN nav_error(quiet, scan.error, scan.table)
    \* navigation.py:144: page_list[0] of an empty list
    ELSE IF scan.default_page = 0 /\ page_list = <<>>
    THEN [quiet EXCEPT !.raised = TRUE, !.exc = "IndexError", !.error = "page_list[0]"]
    ELSE LET default_page == pick_default(scan)
             objs1 == [page_list EXCEPT ![default_page].default = TRUE]
             hit   == matching_page(page_list, found_page)
             page_to_return == IF hit # 0 THEN hit ELSE default_page
             msg == [msg_type |-> "navigation",
                     position |-> position_of(position),
                     sections |-> [k \in 1..Len(nav_sections) |-> nav_sections[k].header],
                     app_pages |-> app_pages_of(nav_sections, objs1),
                     page_script_hash |-> page_list[page_to_return].script_hash]
         IN [raised |-> FALSE, exc |-> "", error |-> "", ret |-> page_to_return,
             objs |-> ordain(objs1, page_to_return),
             set_pages |-> Some(scan.table),
             found |-> Some(found_page),
             msgs |-> (IF hit = 0 THEN <<page_not_found_msg>> ELSE <<>>) \o <<msg>>,
             events |-> <<"set_pages", "get_page_script">>
                        \o (IF hit = 0 THEN <<"enqueue">> ELSE <<>>)
                        \o <<"enqueue">>]

\* navigation.py:94-141: whether the call returns or raises before position
\* and the pages manager's answer are read.
stops_early(c, pages) ==
    LET page_list == pages_from_nav_sections(nav_sections_of(pages)) IN
    \/ no_ctx(c)
    \/ no_pages(page_list)
    \/ page_list = <<>>
    \/ scan_pages(page_list, 1, 0, <<>>).error # ""

\* One call of st.navigation in a script run.
Navigation ==
    /\ call = Idle
    /\ \E ps \in SeqUpTo(PageObjs, MaxPages), is_list \in BOOLEAN :
       \E cut \in IF is_list THEN {0} ELSE 0..(IF ps = <<>> THEN 1 ELSE Len(ps)) :
       \E pages \in {pages_arg(is_list, ps, cut)} :
       \E position \in IF stops_early(ctx, pages) THEN {"sidebar"} ELSE Positions :
       \E found_page \in IF stops_early(ctx, pages) THEN {None} ELSE FoundPages :
         LET r == navigation(ctx, pages, position, found_page) IN
         /\ call' = [op |-> "navigation", pages |-> pages, raised |-> r.raised,
                     exc |-> r.exc, error |-> r.error, ret |-> r.ret, objs |-> r.objs,
                     found |-> r.found]
         /\ pagesTable' = IF r.set_pages = None THEN pagesTable ELSE r.set_pages[1]
         /\ queue' = queue \o r.msgs
         /\ events' = r.events
    /\ UNCHANGED <<ctx, prev, runtime, mediaFiles>>

\* The script-run contexts: none (a bare Python run), or one of a session.
Contexts ==
    {None, Some([active_script_hash |-> "h1", main_script_path |-> <<"/app/", "a.py">>])}

InitNav ==
    /\ ctx \in Contexts
    /\ runtime = (ctx # None)
    /\ pagesTable = <<>>
    /\ queue = <<>>
    /\ events = <<>>
    /\ call = Idle
    /\ prev = Idle
    /\ mediaFiles = <<>>

NextNav == Navigation

SpecNav == InitNav /\ [][NextNav]_vars

\* ------------------------------------------------------------------ serde

\* Most options of a button group.
MaxOptions == 2

\* Most indices the client reports selected for a button group.
MaxSelected == 2

\* Option strings a script passes to button_group.
OptionStrs == {"a", "A"}

\* An optional list: Python None, or the list items.
NoList == [is_none |-> TRUE, items |-> <<>>]

List(items) == [is_none |-> FALSE, items |-> items]

\* A returned value, or the exception raised instead of it.
Returned(v) == [raised |-> FALSE, exc |-> "", value |-> v]

Raised(exc) == [raised |-> TRUE, exc |-> exc, value |-> <<>>]

index_last(options, val) ==
    (CHOOSE i \in 1..Len(options) :
        options[i] = val /\ \A j \in (i + 1)..Len(options) : options[j] # val) - 1

\* list.index(val): the zero-based position of the first element equal to val.
index(options, val) ==
    (CHOOSE i \in 1..Len(options) :
        options[i] = val /\ \A j \in 1..(i - 1) : options[j] # val) - 1

\* button.py:104-107  ButtonGroupOptionsSerde.serialize
options_serialize(serde, value) ==
    IF value.is_none THEN <<>>
    ELSE [k \in 1..Len(value.items) |-> index(serde.options, value.items[k])]

\* button.py:109-113  ButtonGroupOptionsSerde.deserialize
options_deserialize(serde, ui_value) ==
    LET current_value == IF ~ui_value.is_none THEN ui_value.items ELSE serde.default_value
    IN [k \in 1..Len(current_value) |-> serde.options[current_value[k] + 1]]

\* button.py:120-123  ButtonGroupFeedbackSerde.serialize
feedback_serialize(serde, value) == IF value = None THEN <<>> ELSE <<value[1]>>

feedback_deserialize_unmapped(serde, ui_value) ==
    IF ui_value.is_none THEN Returned(None)
    ELSE IF ui_value.items = <<>> THEN Raised("IndexError")
    ELSE Returned(Some(ui_value.items[1]))

\* button.py:125-134  ButtonGroupFeedbackSerde.deserialize; ui_value[0] of an
\* empty list, and a mapping index out of range, raise IndexError.
feedback_deserialize(serde, ui_value) ==
    IF ui_value.is_none THEN Returned(None)
    ELSE IF ui_value.items = <<>> THEN Raised("IndexError")
    ELSE IF serde.index_to_score_mapping = None THEN Returned(Some(ui_value.items[1]))
    ELSE IF ui_value.items[1] + 1 > Len(serde.index_to_score_mapping[1])
    THEN Raised("IndexError")
    ELSE Returned(Some(serde.index_to_score_mapping[1][ui_value.items[1] + 1]))

\* serde.deserialize, by the class of serde.
deserialize(serde, ui_value) ==
    IF serde.class = "ButtonGroupOptionsSerde"
    THEN Returned(options_deserialize(serde, ui_value))
    ELSE feedback_deserialize(serde, ui_value)

\* button.py:673
ButtonGroupOptionsSerde(options) ==
    [class |-> "ButtonGroupOptionsSerde", options |-> options, default_value |-> <<>>,
     index_to_score_mapping |-> None]

\* button.py:751
ButtonGroupFeedbackSerde(index_to_score_mapping) ==
    [class |-> "ButtonGroupFeedbackSerde", options |-> <<>>, default_value |-> <<>>,
     index_to_score_mapping |-> index_to_score_mapping]

\* The lists of valid zero-based indices into options, None included.
IndexLists(options, n) ==
    {NoList} \cup {List(ix) : ix \in SeqUpTo(0..(Len(options) - 1), n)}

\* The lists of values drawn from options, None included.
ValueLists(options, n) ==
    {NoList} \cup {List(v) : v \in SeqUpTo({options[i] : i \in 1..Len(options)}, n)}

\* One use of a ButtonGroupOptionsSerde by the widget state store: a value
\* written by the script is serialized and read back, and an index list
\* reported by the client is deserialized and written back.
OptionsSerdeUse ==
    /\ call = Idle
    /\ \E options \in SeqUpTo(OptionStrs, MaxOptions) :
       \E value \in ValueLists(options, MaxSelected) :
       \E ui_value \in IndexLists(options, MaxSelected) :
         LET serde == ButtonGroupOptionsSerde(options) IN
         call' = [op |-> "options_serde", options |-> options,
                  value |-> value, ui_value |-> ui_value,
                  serialized |-> options_serialize(serde, value),
                  value_back |-> options_deserialize(
                                     serde, List(options_serialize(serde, value))),
                  deserialized |-> options_deserialize(serde, ui_value),
                  ui_back |-> options_serialize(
                                  serde, List(options_deserialize(serde, ui_value)))]
    /\ UNCHANGED <<ctx, pagesTable, queue, events, prev, runtime, mediaFiles>>

InitSerde ==
    /\ ctx = None
    /\ runtime = FALSE
    /\ pagesTable = <<>>
    /\ queue = <<>>
    /\ events = <<>>
    /\ call = Idle
    /\ prev = Idle
    /\ mediaFiles = <<>>

\* The mappings feedback builds (button.py:708-712): thumbs, and none.
ScoreMappings == {Some(<<1, 0>>), None}

\* The scores a feedback widget delivers under a mapping.
ScoresOf(mapping) == IF mapping = None THEN 0..4 ELSE {mapping[1][i] : i \in 1..Len(mapping[1])}

\* One use of a ButtonGroupFeedbackSerde by the widget state store: a score
\* written by the script, or None, is serialized and read back.
FeedbackSerdeUse ==
    /\ call = Idle
    /\ \E mapping \in ScoreMappings :
       \E value \in {None} \cup {Some(score) : score \in ScoresOf(mapping)} :
         LET serde == ButtonGroupFeedbackSerde(mapping) IN
         call' = [op |-> "feedback_serde", mapping |-> mapping, value |-> value,
                  serialized |-> feedback_serialize(serde, value),
                  value_back |-> feedback_deserialize(
                                     serde, List(feedback_serialize(serde, value)))]
    /\ UNCHANGED <<ctx, pagesTable, queue, events, prev, runtime, mediaFiles>>

NextSerde == OptionsSerdeUse \/ FeedbackSerdeUse

SpecSerde == InitSerde /\ [][NextSerde]_vars

\* ----------------------------------------------------------- button groups

widget_steps_enqueue_first(before, after) ==
    <<"compute_widget_id">> \o before \o <<"enqueue", "register_widget">> \o after

\* button.py:803-849, 876-922, 1042-1098: the runtime calls of a stateful
\* widget constructor that succeeds, in program order; before and after are
\* the calls made between the three steps.
widget_steps(before, after) ==
    <<"compute_widget_id">> \o before \o <<"register_widget">> \o after \o <<"enqueue">>

\* Widget keys (to_key(key)).
Keys == {None, Some("k")}

\* str.encode("utf-8"): the bytes of a string.
encode(str) == [bytes |-> str]

\* format_func of button_group: the identity (the default, button.py:657), or
\* a script's own function (here str.upper); of feedback, its two formatters.
format(format_func, option) ==
    CASE format_func = "identity" -> option
      [] format_func = "upper" -> "A"
      \* button.py:687-692
      [] format_func = "format_func_thumbs" ->
            (CASE option = "thumbs_up" -> ":material/thumb_up:"
               [] option = "thumbs_down" -> ":material/thumb_down:"
               [] OTHER -> "")
      \* button.py:694-706
      [] format_func = "format_func_smiles" ->
            (CASE option = "sad" -> ":material/sentiment_sad:"
               [] option = "disappointed" -> ":material/sentiment_dissatisfied:"
               [] option = "neutral" -> ":material/sentiment_neutral:"
               [] option = "happy" -> ":material/sentiment_satisfied:"
               [] option = "very_happy" -> ":material/sentiment_very_satisfied:"
               [] OTHER -> "")

\* button.py:786-787
default_or_empty(default) == IF default.is_none THEN <<>> ELSE default.items

\* button.py:801
formatted_options_of(options, format_func) ==
    [k \in 1..Len(options) |-> encode(format(format_func, options[k]))]

widget_id_args_without_page(c, g) ==
    [element_type |-> "button_group",
     user_key |-> g.key,
     key |-> g.key,
     options |-> formatted_options_of(g.options, g.format_func),
     default |-> default_or_empty(g.default),
     use_container_width |-> g.use_container_width,
     page |-> None]

\* button.py:803-811: the arguments passed to compute_widget_id.
widget_id_args(c, g) ==
    [element_type |-> "button_group",
     user_key |-> g.key,
     key |-> g.key,
     options |-> formatted_options_of(g.options, g.format_func),
     default |-> default_or_empty(g.default),
     use_container_width |-> g.use_container_width,
     page |-> IF c # None THEN Some(c[1].active_script_hash) ELSE None]

\* runtime.state.common.compute_widget_id: a hash of its arguments, taken
\* injective, so the identifier is the arguments.
compute_widget_id(args) == args

\* button.py:814-816: the zero-based positions where default is True.
RECURSIVE default_values_of(_, _)
default_values_of(default, k) ==
    IF k > Len(default) THEN <<>>
    ELSE (IF default[k] = TRUE THEN <<k - 1>> ELSE <<>>) \o default_values_of(default, k + 1)

\* button.py:826-832
click_mode_of(click_mode) ==
    IF click_mode = "button" THEN "BUTTON"
    ELSE IF click_mode = "radio" THEN "RADIO" ELSE "CHECKBOX"

\* runtime.state.register_widget: the widget's value is the deserializer
\* applied to what the client last reported for it, None when it reported
\* nothing or when there is no script-run context.
register_widget(c, serde, ui_value) ==
    deserialize(serde, IF c = None THEN NoList ELSE ui_value)

\* button.py:771-851  _button_group, given what the client reported.
_button_group(c, g, ui_value) ==
    LET widget_id == compute_widget_id(widget_id_args(c, g))
        button_group_proto ==
            [msg_type |-> "button_group",
             id |-> widget_id,
             options |-> formatted_options_of(g.options, g.format_func),
             default |-> default_values_of(default_or_empty(g.default), 1),
             disabled |-> g.disabled,
             click_mode |-> click_mode_of(g.click_mode),
             use_container_width |-> g.use_container_width]
        button_group_state == register_widget(c, g.serde, ui_value)
    IN IF button_group_state.raised
       THEN [raised |-> TRUE, exc |-> button_group_state.exc, error |-> "deserialize",
             value |-> <<>>, id_args |-> Some(widget_id_args(c, g)),
             on_change_handler |-> g.on_click,
             msgs |-> <<>>, events |-> <<"compute_widget_id", "register_widget">>]
       ELSE [raised |-> FALSE, exc |-> "", error |-> "",
             value |-> button_group_state.value, id_args |-> Some(widget_id_args(c, g)),
             on_change_handler |-> g.on_click,
             msgs |-> <<button_group_proto>>,
             events |-> widget_steps(<<>>, <<>>)]

\* button.py:647-674  button_group
button_group(c, a, ui_value) ==
    _button_group(c,
        [options |-> a.options, key |-> a.key, default |-> a.default,
         click_mode |-> a.click_mode, disabled |-> a.disabled,
         use_container_width |-> a.use_container_width,
         format_func |-> a.format_func, on_click |-> a.on_click,
         serde |-> ButtonGroupOptionsSerde(a.options)],
        ui_value)

index_to_score_mapping_shared(options) == Some(<<1, 0>>)

\* button.py:708-712
index_to_score_mapping_of(options) == IF options = "thumbs" THEN Some(<<1, 0>>) ELSE None

\* button.py:721-725
actual_options_of(options) ==
    IF options = "thumbs" THEN <<"thumbs_up", "thumbs_down">>
    ELSE <<"sad", "disappointed", "neutral", "happy", "very_happy">>

\* button.py:748: the wrapper _on_click when the script gave on_click, else None.
feedback_on_click(on_click) == IF on_click # None THEN Some("_on_click") ELSE None

\* button.py:676-752  feedback
feedback(c, a, ui_value) ==
    IF a.options \notin {"thumbs", "smiles"}
    THEN [raised |-> TRUE, exc |-> APIException, error |-> "options",
          value |-> <<>>, id_args |-> None, on_change_handler |-> None,
          msgs |-> <<>>, events |-> <<>>]
    ELSE _button_group(c,
        [options |-> actual_options_of(a.options), key |-> a.key, default |-> NoList,
         click_mode |-> "radio", disabled |-> a.disabled,
         use_container_width |-> FALSE,
         format_func |-> IF a.options = "thumbs" THEN "format_func_thumbs"
                         ELSE "format_func_smiles",
         on_click |-> feedback_on_click(a.on_click),
         serde |-> ButtonGroupFeedbackSerde(index_to_score_mapping_of(a.options))],
        ui_value)

\* The optional lists of booleans passed as default.
DefaultArgs(n) == {NoList} \cup {List(d) : d \in SeqUpTo(BOOLEAN, n)}

ClickModes == {"button", "checkbox", "radio"}

\* on_click: None, or the script's callback.
OnClicks == {None, Some("on_click")}

\* The arguments of a button_group call.
ButtonGroupArgs(n, defaults, formats, modes, flags, clicks) ==
    {[options |-> o, key |-> k, default |-> d, click_mode |-> m, disabled |-> dis,
      use_container_width |-> w, format_func |-> f, on_click |-> oc] :
        o \in SeqUpTo(OptionStrs, n), k \in Keys, d \in defaults,
        m \in modes, dis \in flags, w \in BOOLEAN, f \in formats, oc \in clicks}

\* The arguments of a feedback call.
FeedbackArgs(flags, clicks) ==
    {[options |-> o, key |-> k, disabled |-> dis, on_click |-> oc] :
        o \in {"thumbs", "smiles", "stars"}, k \in Keys, dis \in flags, oc \in clicks}

\* What the client may have reported for a widget with n options.
UiValues(n, most) == {NoList} \cup {List(ix) : ix \in SeqUpTo(0..(n - 1), most)}

\* The effect of one widget call with outcome r on the state.
Outcome(op, a, ui_value, r) ==
    /\ call' = [op |-> op, ctx |-> ctx, args |-> a, ui_value |-> ui_value,
                raised |-> r.raised, exc |-> r.exc, error |-> r.error,
                value |-> r.value, id_args |-> r.id_args,
                on_change_handler |-> r.on_change_handler]
    /\ queue' = queue \o r.msgs
    /\ events' = r.events
    /\ UNCHANGED <<ctx, pagesTable, runtime, mediaFiles>>

\* A call of st.button_group with arguments among argset, the client having
\* reported at most `most` selected indices.
ButtonGroupCall(argset, most) ==
    \E a \in argset :
    \E ui_value \in UiValues(Len(a.options), most) :
        Outcome("button_group", a, ui_value, button_group(ctx, a, ui_value))

\* A call of st.feedback with arguments among argset.
FeedbackCall(argset, most) ==
    \E a \in argset :
    \E ui_value \in UiValues(Len(actual_options_of(a.options)), most) :
        Outcome("feedback", a, ui_value, feedback(ctx, a, ui_value))

\* One call of st.button_group in a script run.
ButtonGroup ==
    /\ call = Idle
    /\ ButtonGroupCall(
           ButtonGroupArgs(MaxOptions, DefaultArgs(MaxOptions), {"identity", "upper"},
                           ClickModes, BOOLEAN, OnClicks), 1)
    /\ UNCHANGED prev

\* One call of st.feedback in a script run.
Feedback ==
    /\ call = Idle
    /\ FeedbackCall(FeedbackArgs(BOOLEAN, OnClicks), 1)
    /\ UNCHANGED prev

\* The script-run contexts of the widget calls: none, or a run of one of two pages.
WidgetContexts ==
    {None,
     Some([active_script_hash |-> "h1", main_script_path |-> <<"/app/", "a.py">>]),
     Some([active_script_hash |-> "h2", main_script_path |-> <<"/app/", "a.py">>])}

InitGroup ==
    /\ ctx \in WidgetContexts
    /\ runtime = (ctx # None)
    /\ pagesTable = <<>>
    /\ queue = <<>>
    /\ events = <<>>
    /\ call = Idle
    /\ prev = Idle
    /\ mediaFiles = <<>>

NextGroup == ButtonGroup \/ Feedback

SpecGroup == InitGroup /\ [][NextGroup]_vars

\* ------------------------------------------------- feedback callback

\* A dict as a set of <<name, value>> pairs, one pair per name.
has_key(dict, name) == \E p \in dict : p[1] = name

item(dict, name) == (CHOOSE p \in dict : p[1] = name)[2]

\* dict(kwargs, name=value)
dict_with(dict, name, value) == {p \in dict : p[1] # name} \cup {<<name, value>>}

_on_click_unchanged(key, session_state, args, kwargs) ==
    <<[fn |-> "on_click", args |-> args, kwargs |-> kwargs]>>

\* button.py:727-740  _on_click: the calls of the script's on_click it makes.
_on_click(key, session_state, args, kwargs) ==
    IF key = None THEN <<[fn |-> "on_click", args |-> args, kwargs |-> kwargs]>>
    ELSE LET current_value == IF has_key(session_state, key[1])
                              THEN item(session_state, key[1]) ELSE None
         IN <<[fn |-> "on_click", args |-> args,
               kwargs |-> dict_with(kwargs, "_st_value", current_value)]>>

\* ctx.session_state when the callback runs: empty, holding the widget's key
\* (with a score or with None), or holding another key only.
SessionStates ==
    {{}, {<<"k", Some(3)>>}, {<<"k", None>>}, {<<"j", Some(1)>>},
     {<<"j", Some(1)>>, <<"k", Some(0)>>}}

\* The args and kwargs given to feedback, which the state store hands to the
\* handler.
CallbackArgs == {<<>>, <<"x">>}

CallbackKwargs == {{}, {<<"who", Some(7)>>}, {<<"_st_value", Some(9)>>}}

\* The script-run contexts with their session state.
CallbackContexts ==
    {None} \cup
    {Some([active_script_hash |-> "h1", main_script_path |-> <<"/app/", "a.py">>,
           session_state |-> ss]) : ss \in SessionStates}

\* The state store runs the handler registered by the last feedback call,
\* in a script run (a call without a context registers nothing).
InvokeCallback ==
    /\ call.op = "feedback" /\ ~call.raised
    /\ call.on_change_handler = Some("_on_click")
    /\ ctx # None
    /\ \E args \in CallbackArgs, kwargs \in CallbackKwargs :
         call' = [op |-> "_on_click", key |-> call.args.key,
                  args |-> args, kwargs |-> kwargs,
                  calls |-> _on_click(call.args.key, ctx[1].session_state, args, kwargs)]
    /\ UNCHANGED <<ctx, pagesTable, queue, events, prev, runtime, mediaFiles>>

InitCallback ==
    /\ ctx \in CallbackContexts
    /\ runtime = (ctx # None)
    /\ pagesTable = <<>>
    /\ queue = <<>>
    /\ events = <<>>
    /\ call = Idle
    /\ prev = Idle
    /\ mediaFiles = <<>>

NextCallback == Feedback \/ InvokeCallback

SpecCallback == InitCallback /\ [][NextCallback]_vars

\* ------------------------------------------------- widget identifiers

\* Most options of the button groups whose identifiers are compared.
MaxIdOptions == 1

\* A button_group call followed for its identifier: the display-only
\* arguments are fixed, the client has reported nothing.
IdButtonGroup ==
    /\ prev = Idle
    /\ ButtonGroupCall(
           ButtonGroupArgs(MaxIdOptions, {NoList, List(<<>>), List(<<TRUE>>)},
                           {"identity", "upper"}, {"button"}, {FALSE}, {None}), -1)
    /\ prev' = call

\* A feedback call followed for its identifier.
IdFeedback ==
    /\ prev = Idle
    /\ FeedbackCall(FeedbackArgs({FALSE}, {None}), -1)
    /\ prev' = call

\* The script is run again, on the same page or another one: the forward
\* message queue starts empty.
ScriptRerun ==
    /\ call # Idle
    /\ prev = Idle
    /\ ctx' \in WidgetContexts
    /\ queue' = <<>>
    /\ events' = <<>>
    /\ UNCHANGED <<pagesTable, call, prev, runtime, mediaFiles>>

NextId == IdButtonGroup \/ IdFeedback \/ ScriptRerun

SpecId == InitGroup /\ [][NextId]_vars

\* -------------------------------------------------------------- page links

\* Most pages of the page table a page link is resolved against.
MaxLinkPages == 2

\* url_util.is_url: the string starts with "http://" or "https://".
is_url(page) == page # <<>> /\ page[1] \in {"http://", "https://"}

\* file_util.get_main_script_directory: the directory of the main script,
\* the working directory when the script path is empty.
get_main_script_directory(main_script) ==
    IF main_script = <<>> THEN <<"/cwd/">> ELSE SubSeq(main_script, 1, Len(main_script) - 1)

\* os.path.normpath, on the "./" segments.
RECURSIVE normpath(_)
normpath(path) ==
    IF path = <<>> THEN <<>>
    ELSE (IF Head(path) = "./" THEN <<>> ELSE <<Head(path)>>) \o normpath(Tail(path))

\* button.py:996-999: realpath(normalize_path_join(main_script_directory, page))
requested_page_of(ctx_main_script, page) ==
    normpath(get_main_script_directory(ctx_main_script) \o page)

\* button.py:1002-1010: the first page of the table, in its order, whose
\* script_path is the requested one; 0 when there is none.
first_page_at(all_app_pages, requested_page) ==
    LET hits == {k \in 1..Len(all_app_pages) :
                    all_app_pages[k].script_path = requested_page}
    IN IF hits = {} THEN 0 ELSE CHOOSE k \in hits : \A j \in hits : k <= j

label_missing_none_only(label) == label = None

\* button.py:980
label_missing(label) == label = None \/ label = Some(<<>>)

\* button.py:957-970 (icon and help are copied when given and are left out)
page_link_proto_of(a) ==
    [msg_type |-> "page_link",
     disabled |-> a.disabled,
     label |-> IF a.label # None THEN a.label[1] ELSE <<>>,
     use_container_width |-> a.use_container_width,
     page |-> <<>>,
     page_script_hash |-> "",
     external |-> FALSE]

raise_if_no_hash_unchecked(proto, looked) ==
    [raised |-> FALSE, exc |-> "", error |-> "",
     msgs |-> <<proto>>, events |-> Append(looked, "enqueue")]

\* button.py:1012-1017
raise_if_no_hash(proto, looked) ==
    IF proto.page_script_hash = ""
    THEN [raised |-> TRUE, exc |-> APIException, error |-> "could_not_find_page",
          msgs |-> <<>>, events |-> looked]
    ELSE [raised |-> FALSE, exc |-> "", error |-> "",
          msgs |-> <<proto>>, events |-> Append(looked, "enqueue")]

\* button.py:947-1017  _page_link, against the pages manager's table.
_page_link(c, table, a) ==
    LET proto == page_link_proto_of(a) IN
    IF a.page.is_page
    THEN \* button.py:972-976
         raise_if_no_hash(
            [proto EXCEPT !.page_script_hash = a.page.obj.script_hash,
                          !.page = a.page.obj.url_path,
                          !.label = IF a.label = None THEN a.page.obj.title ELSE @],
            <<>>)
    ELSE IF is_url(a.page.str)
    THEN \* button.py:979-987
         IF label_missing(a.label)
         THEN [raised |-> TRUE, exc |-> APIException, error |-> "label_required",
               msgs |-> <<>>, events |-> <<>>]
         ELSE [raised |-> FALSE, exc |-> "", error |-> "",
               msgs |-> <<[proto EXCEPT !.page = a.page.str, !.external = TRUE]>>,
               events |-> <<"enqueue">>]
    ELSE \* button.py:989-1010
         LET ctx_main_script == IF c # None THEN c[1].main_script_path ELSE <<>>
             all_app_pages   == IF c # None THEN table ELSE <<>>
             requested_page  == requested_page_of(ctx_main_script, a.page.str)
             hit             == first_page_at(all_app_pages, requested_page)
             looked          == IF c # None THEN <<"get_pages">> ELSE <<>>
         IN IF hit = 0 THEN raise_if_no_hash(proto, looked)
            ELSE raise_if_no_hash(
                    [proto EXCEPT
                        !.label = IF a.label = None
                                  THEN replace(all_app_pages[hit].page_name, "_", " ")
                                  ELSE @,
                        !.page_script_hash = all_app_pages[hit].page_script_hash,
                        !.page = all_app_pages[hit].page_name],
                    looked)

\* The page argument: a StreamlitPage, or a string (a URL or a path).
PageTargets ==
    {[is_page |-> TRUE, str |-> <<>>,
      obj |-> [script_hash |-> "h3", url_path |-> <<"t", "o", "p">>,
               title |-> <<"T", "o", "p">>]]}
    \cup {[is_page |-> FALSE, str |-> p, obj |-> <<>>] :
            p \in {<<"https://", "x.io">>, <<"http://", "y.io">>,
                   <<"a.py">>, <<"./", "a.py">>, <<"pages/", "b.py">>, <<"nope.py">>}}

\* Labels: None, the empty string, a label.
Labels == {None, Some(<<>>), Some(<<"G", "o">>)}

PageLinkArgs ==
    {[page |-> p, label |-> l, disabled |-> d, use_container_width |-> w] :
        p \in PageTargets, l \in Labels, d \in BOOLEAN, w \in {None, Some(TRUE)}}

\* One call of st.page_link in a script run.
PageLink ==
    /\ call = Idle
    /\ \E a \in PageLinkArgs :
         LET r == _page_link(ctx, pagesTable, a) IN
         /\ call' = [op |-> "page_link", args |-> a, raised |-> r.raised,
                     exc |-> r.exc, error |-> r.error]
         /\ queue' = queue \o r.msgs
         /\ events' = r.events
    /\ UNCHANGED <<ctx, pagesTable, prev, runtime, mediaFiles>>

\* Page names of a pages/ directory and titles of st.Page.
LinkTitles == {<<"H", "i">>, <<"p", "_", "1">>}

\* The pages a page table may hold: scripts at a path, and callables.
LinkPageObjs ==
    {[title |-> t, script_hash |-> h, default |-> FALSE, page |-> pg,
      can_be_called |-> FALSE] :
        t \in LinkTitles, h \in Hashes,
        pg \in {Some(<<"/app/", "a.py">>), Some(<<"/app/", "pages/", "b.py">>), None}}

\* The page tables set_pages may have left: one entry per page of a list
\* that navigation accepts.
PageTables ==
    {scan_pages(ps, 1, 0, <<>>).table :
        ps \in {qs \in SeqUpTo(LinkPageObjs, MaxLinkPages) :
                    scan_pages(qs, 1, 0, <<>>).error = ""}}

InitLink ==
    /\ ctx \in Contexts
    /\ runtime = (ctx # None)
    /\ pagesTable \in IF ctx = None THEN {<<>>} ELSE PageTables
    /\ queue = <<>>
    /\ events = <<>>
    /\ call = Idle
    /\ prev = Idle
    /\ mediaFiles = <<>>

NextLink == PageLink

SpecLink == InitLink /\ [][NextLink]_vars

\* ---------------------------------------------------------------- buttons

button_deserialize_clicked(ui_value) == TRUE

\* button.py:82-83  ButtonSerde.deserialize: ui_value or False
button_deserialize(ui_value) == IF ui_value = None THEN FALSE ELSE ui_value[1]

\* runtime.state.register_widget for a button: see register_widget.
register_button(c, ui_value) == button_deserialize(IF c = None THEN None ELSE ui_value)

\* textwrap.dedent, on the help texts used here.
dedent(help) == IF help = <<"  ", "tip">> THEN <<"tip">> ELSE help

type_allowed_any(type) == TRUE

\* button.py:236, 415, 513
type_allowed(type) == type \in {"primary", "secondary"}

\* The outcome of a call that raises StreamlitAPIException at `error` after
\* the runtime calls `done`.
api_error(error, done) ==
    [raised |-> TRUE, exc |-> APIException, error |-> error, value |-> FALSE,
     msgs |-> <<>>, files |-> <<>>, events |-> done]

form_error_without_runtime(rt, in_form, is_form_submitter) ==
    IF in_form /\ ~is_form_submitter THEN "button_in_form"
    ELSE IF ~in_form /\ is_form_submitter THEN "submit_outside_form"
    ELSE ""

\* button.py:1059-1067: the raise statement reached, "" for none.
form_error(rt, in_form, is_form_submitter) ==
    IF ~rt THEN ""
    ELSE IF in_form /\ ~is_form_submitter THEN "button_in_form"
    ELSE IF ~in_form /\ is_form_submitter THEN "submit_outside_form"
    ELSE ""

\* button.py:1019-1100  _button, on a delta generator inside a form or not.
_button(c, rt, in_form, a, is_form_submitter, ui_value) ==
    LET id == [element_type |-> "button", user_key |-> a.key, label |-> a.label,
               key |-> a.key, help |-> a.help, is_form_submitter |-> is_form_submitter,
               type |-> a.type, use_container_width |-> a.use_container_width,
               page |-> IF c # None THEN Some(c[1].active_script_hash) ELSE None]
        button_proto ==
            [msg_type |-> "button", id |-> id, label |-> a.label, default |-> FALSE,
             is_form_submitter |-> is_form_submitter,
             form_id |-> IF in_form THEN "form" ELSE "",
             type |-> a.type, use_container_width |-> a.use_container_width,
             disabled |-> a.disabled,
             help |-> IF a.help # None THEN dedent(a.help[1]) ELSE <<>>]
    IN IF form_error(rt, in_form, is_form_submitter) # ""
       THEN api_error(form_error(rt, in_form, is_form_submitter), <<"compute_widget_id">>)
       ELSE [raised |-> FALSE, exc |-> "", error |-> "",
             value |-> register_button(c, ui_value),
             msgs |-> <<button_proto>>, files |-> <<>>,
             events |-> widget_steps(
                 <<>>, IF c # None THEN <<"save_for_app_testing">> ELSE <<>>)]

\* button.py:138-254  button
button(c, rt, in_form, a, ui_value) ==
    IF ~type_allowed(a.type) THEN api_error("type", <<>>)
    ELSE _button(c, rt, in_form, a, FALSE, ui_value)

\* button.py:1116-1140: the bytes of the data and the MIME type, by the kind
\* of data; any other kind raises RuntimeError.
marshalled(data, mimetype) ==
    \* mimetype or default: None and the empty string give the default
    LET mime_or(default) ==
            IF mimetype # None /\ mimetype[1] # "" THEN mimetype[1] ELSE default IN
    CASE data.kind \in {"str", "TextIOWrapper"} ->
            [raised |-> FALSE, data_as_bytes |-> encode(data.content),
             mimetype |-> mime_or("text/plain")]
      [] data.kind \in {"bytes", "BytesIO", "BufferedReader", "RawIOBase"} ->
            [raised |-> FALSE, data_as_bytes |-> [bytes |-> data.content],
             mimetype |-> mime_or("application/octet-stream")]
      [] OTHER ->
            [raised |-> TRUE, data_as_bytes |-> [bytes |-> ""], mimetype |-> ""]

\* button.py:1108-1155  marshall_file: the file added to the media file
\* manager when the runtime exists, and the url put in the proto.
marshall_file(rt, files, coordinates, data, mimetype, file_name) ==
    LET m == marshalled(data, mimetype) IN
    IF m.raised THEN [raised |-> TRUE, files |-> <<>>, url |-> <<>>]
    ELSE IF rt
    THEN [raised |-> FALSE,
          files |-> <<[data |-> m.data_as_bytes, mimetype |-> m.mimetype,
                       coordinates |-> coordinates, file_name |-> file_name,
                       is_for_static_download |-> TRUE]>>,
          url |-> <<"/media/", Len(files) + 1>>]
    ELSE [raised |-> FALSE, files |-> <<>>, url |-> <<>>]

download_forbidden_with_runtime(rt, in_form) == rt /\ in_form

\* button.py:889: is_in_form(self.dg), whether or not the runtime exists.
download_forbidden(rt, in_form) == in_form

\* button.py:853-923  _download_button
_download_button(c, rt, files, in_form, a, ui_value) ==
    LET id == [element_type |-> "download_button", user_key |-> a.key, label |-> a.label,
               file_name |-> a.file_name, mime |-> a.mime, key |-> a.key,
               help |-> a.help, type |-> a.type,
               use_container_width |-> a.use_container_width,
               page |-> IF c # None THEN Some(c[1].active_script_hash) ELSE None]
        file == marshall_file(rt, files, "coordinates", a.data, a.mime, a.file_name)
        download_button_proto ==
            [msg_type |-> "download_button", id |-> id,
             use_container_width |-> a.use_container_width, label |-> a.label,
             default |-> FALSE, type |-> a.type, url |-> file.url,
             disabled |-> a.disabled,
             help |-> IF a.help # None THEN dedent(a.help[1]) ELSE <<>>]
    IN IF download_forbidden(rt, in_form)
       THEN api_error("download_button_in_form", <<"compute_widget_id">>)
       ELSE IF file.raised
       THEN [raised |-> TRUE, exc |-> "RuntimeError", error |-> "data", value |-> FALSE,
             msgs |-> <<>>, files |-> <<>>, events |-> <<"compute_widget_id">>]
       ELSE [raised |-> FALSE, exc |-> "", error |-> "",
             value |-> register_button(c, ui_value),
             msgs |-> <<download_button_proto>>, files |-> file.files,
             events |-> widget_steps(
                 IF rt THEN <<"media_file_mgr.add">> ELSE <<>>, <<>>)]

\* button.py:256-435  download_button
download_button(c, rt, files, in_form, a, ui_value) ==
    IF ~type_allowed(a.type) THEN api_error("type", <<>>)
    ELSE _download_button(c, rt, files, in_form, a, ui_value)

\* button.py:925-945  _link_button
_link_button(a) ==
    [raised |-> FALSE, exc |-> "", error |-> "", value |-> FALSE,
     msgs |-> <<[msg_type |-> "link_button", label |-> a.label, url |-> a.url,
                 type |-> a.type, use_container_width |-> a.use_container_width,
                 disabled |-> a.disabled,
                 help |-> IF a.help # None THEN dedent(a.help[1]) ELSE <<>>]>>,
     files |-> <<>>, events |-> <<"enqueue">>]

\* button.py:437-526  link_button
link_button(a) ==
    IF ~type_allowed(a.type) THEN api_error("type", <<>>) ELSE _link_button(a)

\* The type argument: the two allowed values, and others.
ButtonTypes == {"primary", "secondary", "tertiary", ""}

Helps == {None, Some(<<"  ", "tip">>)}

\* What the client may have reported for a button: nothing, a click, no click.
ButtonUiValues == {None, Some(TRUE), Some(FALSE)}

ButtonArgs ==
    {[label |-> <<"O", "K">>, key |-> k, help |-> h, type |-> t, disabled |-> d,
      use_container_width |-> w, on_click |-> oc] :
        k \in Keys, h \in Helps, t \in ButtonTypes, d \in BOOLEAN, w \in BOOLEAN,
        oc \in OnClicks}

\* The data of a download: its kind and its content.
DownloadData ==
    {[kind |-> k, content |-> "x"] :
        k \in {"str", "TextIOWrapper", "bytes", "BytesIO", "BufferedReader",
               "RawIOBase", "int"}}

DownloadArgs ==
    {[label |-> <<"G", "e", "t">>, data |-> data, file_name |-> f, mime |-> m,
      key |-> k, help |-> None, type |-> t, disabled |-> d,
      use_container_width |-> FALSE, on_click |-> None] :
        data \in DownloadData, f \in {None, Some("f.txt")}, m \in {None, Some(""), Some("text/csv")},
        k \in Keys, t \in ButtonTypes, d \in BOOLEAN}

LinkArgs ==
    {[label |-> <<"G", "o">>, url |-> <<"https://", "x.io">>, help |-> h, type |-> t,
      disabled |-> d, use_container_width |-> w] :
        h \in Helps, t \in ButtonTypes, d \in BOOLEAN, w \in BOOLEAN}

\* The effect of one button call with outcome r on the state.
ButtonOutcome(op, a, in_form, ui_value, r) ==
    /\ call' = [op |-> op, args |-> a, in_form |-> in_form, ui_value |-> ui_value,
                raised |-> r.raised, exc |-> r.exc, error |-> r.error,
                value |-> r.value]
    /\ queue' = queue \o r.msgs
    /\ mediaFiles' = mediaFiles \o r.files
    /\ events' = r.events
    /\ UNCHANGED <<ctx, pagesTable, prev, runtime>>

\* One call of st.button, inside a form or not.
Button ==
    /\ call = Idle
    /\ \E a \in ButtonArgs, in_form \in BOOLEAN, ui_value \in ButtonUiValues :
         ButtonOutcome("button", a, in_form, ui_value,
                       button(ctx, runtime, in_form, a, ui_value))

\* One call of st.download_button, inside a form or not.
DownloadButton ==
    /\ call = Idle
    /\ \E a \in DownloadArgs, in_form \in BOOLEAN, ui_value \in ButtonUiValues :
         ButtonOutcome("download_button", a, in_form, ui_value,
                       download_button(ctx, runtime, mediaFiles, in_form, a, ui_value))

\* The arguments st.form_submit_button passes on: its type is one of the two.
SubmitArgs == {a \in ButtonArgs : type_allowed(a.type)}

\* One call of st.form_submit_button, which is _button with
\* is_form_submitter = True, inside a form or not.
FormSubmitButton ==
    /\ call = Idle
    /\ \E a \in SubmitArgs, in_form \in BOOLEAN, ui_value \in ButtonUiValues :
         ButtonOutcome("form_submit_button", a, in_form, ui_value,
                       _button(ctx, runtime, in_form, a, TRUE, ui_value))

\* One call of st.link_button.
LinkButton ==
    /\ call = Idle
    /\ \E a \in LinkArgs :
         ButtonOutcome("link_button", a, FALSE, None, link_button(a))

\* A script run by streamlit has a runtime and a context; a bare Python run
\* has neither; a thread without a context may still see the runtime.
InitButton ==
    /\ ctx \in Contexts
    /\ runtime \in IF ctx # None THEN {TRUE} ELSE BOOLEAN
    /\ pagesTable = <<>>
    /\ queue = <<>>
    /\ events = <<>>
    /\ call = Idle
    /\ prev = Idle
    /\ mediaFiles = <<>>

NextButton == Button \/ DownloadButton \/ LinkButton \/ FormSubmitButton

SpecButton == InitButton /\ [][NextButton]_vars

\* -------------------------------------------------- stateful widgets

\* The script runs of SpecGroup and SpecButton together.
InitWidget ==
    /\ ctx \in WidgetContexts
    /\ runtime \in IF ctx # None THEN {TRUE} ELSE BOOLEAN
    /\ pagesTable = <<>>
    /\ queue = <<>>
    /\ events = <<>>
    /\ call = Idle
    /\ prev = Idle
    /\ mediaFiles = <<>>

\* One call of a constructor that registers a widget.
NextWidget == Button \/ DownloadButton \/ FormSubmitButton \/ ButtonGroup \/ Feedback

SpecWidget == InitWidget /\ [][NextWidget]_vars

\* ------------------------------------------------------ navigation: claims

NavCalled == call.op = "navigation" /\ ctx # None

\* The pages of the argument, in the order given, as the caller passed them.
RECURSIVE ArgPagesOf(_)
ArgPagesOf(sections) ==
    IF sections = <<>> THEN <<>> ELSE Head(sections).pages \o ArgPagesOf(Tail(sections))

ArgPages == IF call.pages.is_list THEN call.pages.items ELSE ArgPagesOf(call.pages.sections)

\* C1: with a script-run context, navigation called with zero pages in total
\* (empty list, empty dict, dict of empty sections) raises
\* StreamlitAPIException before set_pages is called and before any message
\* is enqueued.
C1_ZeroPagesRejected ==
    (NavCalled /\ Len(ArgPages) = 0) =>
        /\ call.raised /\ call.exc = APIException
        /\ events = <<>>
        /\ pagesTable = <<>>
        /\ queue = <<>>

C1_Witness ==
    /\ NavCalled /\ call.raised
    /\ ~call.pages.is_list
    /\ Len(call.pages.sections) = 2
    /\ \A k \in 1..2 : call.pages.sections[k].pages = <<>>

\* C2: with a script-run context, navigation called with two or more pages
\* flagged default (same or different sections, any positions) raises
\* StreamlitAPIException.
C2_MultipleDefaultsRejected ==
    (NavCalled /\ Cardinality({i \in 1..Len(ArgPages) : ArgPages[i].default}) >= 2) =>
        call.raised /\ call.exc = APIException

C2_Witness ==
    /\ NavCalled /\ call.raised /\ call.error = "multiple_default"
    /\ ~call.pages.is_list
    /\ Len(ArgPages) = 3
    /\ ArgPages[1].default /\ ~ArgPages[2].default /\ ArgPages[3].default
    /\ Len(call.pages.sections[1].pages) = 1

SharedTitle == \E i, j \in 1..Len(ArgPages) : i # j /\ ArgPages[i].title = ArgPages[j].title

\* C3: navigation called with two pages that share a title is rejected with
\* StreamlitAPIException, and a call whose pages have pairwise distinct
\* titles is never rejected as a duplicate-title error.
C3_DuplicateTitleRejected ==
    NavCalled =>
        /\ SharedTitle => (call.raised /\ call.exc = APIException)
        /\ ~SharedTitle => ~(call.raised /\ call.error = "duplicate_title")

\* A navigation call that returned a page.
NavReturned == NavCalled /\ ~call.raised

\* The navigation message of the call: the last message enqueued.
NavMsg == queue[Len(queue)]

\* C11: when navigation raises (zero pages, multiple defaults, duplicate
\* page), set_pages has not been called, no message has been enqueued, and
\* every page object has the default and _can_be_called flags it was passed
\* with.
C11_RejectionLeavesState ==
    (NavCalled /\ call.raised) =>
        /\ call.exc = APIException
        /\ events = <<>>
        /\ pagesTable = <<>>
        /\ queue = <<>>
        /\ call.objs = ArgPages

C11_Witness ==
    /\ NavCalled /\ call.raised /\ call.error = "duplicate_title"
    /\ Len(ArgPages) = 3
    /\ ArgPages[1].script_hash # ArgPages[2].script_hash
    /\ ArgPages[3].script_hash = ArgPages[1].script_hash
    /\ \A i \in 1..3 : ~ArgPages[i].default
    /\ call.objs = ArgPages /\ queue = <<>>

\* The pages the caller flagged default, and the entries of the navigation
\* message flagged default, by position in the flattened list.
Flagged == {i \in 1..Len(ArgPages) : ArgPages[i].default}

MsgDefaults == {i \in 1..Len(NavMsg.app_pages) : NavMsg.app_pages[i].is_default}

\* C12: in the navigation message of a successful call exactly one app_pages
\* entry has is_default = True: the entry of the page the caller flagged
\* default, or of the first page of the flattened list (sections in dict
\* order, pages in list order) when the caller flagged none.
C12_OneDefault ==
    NavReturned =>
        /\ queue # <<>> /\ NavMsg.msg_type = "navigation"
        /\ Len(NavMsg.app_pages) = Len(ArgPages)
        /\ \A i \in 1..Len(ArgPages) :
               NavMsg.app_pages[i].page_script_hash = ArgPages[i].script_hash
        /\ Cardinality(MsgDefaults) = 1
        /\ MsgDefaults = IF Flagged = {} THEN {1} ELSE Flagged

C12_Witness ==
    /\ NavReturned /\ ~call.pages.is_list
    /\ call.pages.sections[1].pages = <<>>
    /\ Len(ArgPages) = 2 /\ Flagged = {}
    /\ MsgDefaults = {1}
    /\ NavMsg.app_pages[1].section_header = "More"

\* C13: with a script-run context, the page navigation returns is one of the
\* page objects the caller passed and has _can_be_called = True, whether
\* get_page_script answered with a listed page, another page, or nothing.
C13_ReturnedPageOrdained ==
    NavReturned =>
        /\ call.ret \in 1..Len(ArgPages)
        /\ call.objs[call.ret].script_hash = ArgPages[call.ret].script_hash
        /\ call.objs[call.ret].title = ArgPages[call.ret].title
        /\ call.objs[call.ret].can_be_called

C13_Witness ==
    /\ NavReturned
    /\ call.found = Some(Some([page_script_hash |-> "hx"]))
    /\ Len(ArgPages) = 2 /\ Flagged = {2}
    /\ call.ret = 2 /\ call.objs[2].can_be_called

\* get_page_script answered with a page of the list.
FoundListed ==
    /\ call.found[1] # None
    /\ \E i \in 1..Len(ArgPages) :
          ArgPages[i].script_hash = call.found[1][1].page_script_hash

NotFoundAt == {k \in 1..Len(queue) : queue[k].msg_type = "page_not_found"}

NavigationAt == {k \in 1..Len(queue) : queue[k].msg_type = "navigation"}

\* C19: in a successful navigation call a page_not_found message is
\* enqueued exactly when get_page_script answered nothing or a page whose
\* hash no listed page has; it then precedes the navigation message and the
\* returned page is the default page; exactly one navigation message is
\* enqueued, and it is the last message of the call.
C19_PageNotFound ==
    NavReturned =>
        /\ NavigationAt = {Len(queue)}
        /\ (NotFoundAt # {}) <=> ~FoundListed
        /\ ~FoundListed =>
              /\ NotFoundAt = {1} /\ Len(queue) = 2
              /\ MsgDefaults = {call.ret}
        /\ FoundListed => Len(queue) = 1

C19_Witness ==
    /\ NavReturned /\ call.found = Some(None)
    /\ Len(ArgPages) = 3 /\ Flagged = {3}
    /\ Len(queue) = 2 /\ queue[1].msg_type = "page_not_found"
    /\ queue[2].msg_type = "navigation"
    /\ call.ret = 3

\* C20: in a successful navigation call the navigation message's
\* page_script_hash is the _script_hash of the returned page and is the
\* page_script_hash of exactly one app_pages entry; set_pages was called
\* before get_page_script, with a table holding exactly one entry per page
\* of the list.
C20_HashesAgree ==
    NavReturned =>
        /\ NavMsg.page_script_hash = call.objs[call.ret].script_hash
        /\ Cardinality({i \in 1..Len(NavMsg.app_pages) :
               NavMsg.app_pages[i].page_script_hash = NavMsg.page_script_hash}) = 1
        /\ Len(events) >= 2 /\ events[1] = "set_pages" /\ events[2] = "get_page_script"
        /\ Len(pagesTable) = Len(ArgPages)
        /\ \A i \in 1..Len(ArgPages) :
               Cardinality({k \in 1..Len(pagesTable) :
                   pagesTable[k].page_script_hash = ArgPages[i].script_hash}) = 1

C20_Witness ==
    /\ NavReturned
    /\ Len(ArgPages) = 3 /\ Flagged = {1}
    /\ call.found = Some(Some([page_script_hash |-> ArgPages[2].script_hash]))
    /\ call.ret = 2
    /\ NavMsg.page_script_hash = ArgPages[2].script_hash
    /\ Len(pagesTable) = 3

\* ------------------------------------------------ serde and groups: claims

FeedbackCalled == call.op = "feedback" /\ ctx # None

\* C4: for feedback(options="thumbs"), the client's selection [0] is
\* delivered as score 1 (thumbs up) and [1] as score 0 (thumbs down).
C4_ThumbsScores ==
    (FeedbackCalled /\ call.args.options = "thumbs") =>
        /\ call.ui_value = List(<<0>>) => (~call.raised /\ call.value = Some(1))
        /\ call.ui_value = List(<<1>>) => (~call.raised /\ call.value = Some(0))

C4_Witness ==
    /\ FeedbackCalled /\ call.args.options = "thumbs"
    /\ call.ui_value = List(<<1>>)
    /\ call.value = Some(0)

OptionsSerdeUsed == call.op = "options_serde"

\* Every reported index is the first position of its option.
FirstPositions ==
    \A k \in 1..Len(call.ui_value.items) :
        \A j \in 1..call.ui_value.items[k] :
            call.options[j] # call.options[call.ui_value.items[k] + 1]

\* C5 as stated: ButtonGroupOptionsSerde round-trips in both directions,
\* deserialize(serialize(v)) = v for every list v of values of options and
\* for v = None, and serialize(deserialize(ix)) = ix for every list ix of
\* valid indices, option lists with a repeated string included.
C5_RoundTripAlways ==
    OptionsSerdeUsed =>
        /\ List(call.value_back) = call.value
        /\ ~call.ui_value.is_none => call.ui_back = call.ui_value.items

\* C5 as amended: deserialize(serialize(v)) = v for every list v of values
\* of options; serialize(None) = [] and deserializes to [], not None; and
\* serialize(deserialize(ix)) = ix for every list ix of valid indices each of
\* which is the first position of its option (so for every ix when the
\* options are pairwise distinct).
C5_RoundTrip ==
    OptionsSerdeUsed =>
        /\ ~call.value.is_none => call.value_back = call.value.items
        /\ call.value.is_none => (call.serialized = <<>> /\ call.value_back = <<>>)
        /\ (~call.ui_value.is_none /\ FirstPositions) =>
               call.ui_back = call.ui_value.items

C5_Witness ==
    /\ OptionsSerdeUsed
    /\ Len(call.options) = 2 /\ call.options[1] = call.options[2]
    /\ call.value = List(<<call.options[1], call.options[2]>>)
    /\ call.value_back = call.value.items
    /\ call.ui_value = List(<<0, 0>>)
    /\ call.ui_back = <<0, 0>>

GroupCall(c) == c.op \in {"button_group", "feedback"} /\ c.id_args # None

PageOf(c) == IF c.ctx = None THEN None ELSE Some(c.ctx[1].active_script_hash)

\* What the script passed: the widget, its options, default and width flag,
\* and the active page.
IdFields(c) ==
    IF c.op = "button_group"
    THEN [kind |-> c.op, options |-> c.args.options, default |-> c.args.default,
          use_container_width |-> c.args.use_container_width, page |-> PageOf(c)]
    ELSE [kind |-> c.op, options |-> <<c.args.options>>, default |-> NoList,
          use_container_width |-> FALSE, page |-> PageOf(c)]

\* What the identifier is computed from: the key, the options as formatted,
\* the default with None read as the empty list, the width flag and the page.
IdKey(c) ==
    IF c.op = "button_group"
    THEN [key |-> c.args.key,
          options |-> formatted_options_of(c.args.options, c.args.format_func),
          default |-> IF c.args.default.is_none THEN <<>> ELSE c.args.default.items,
          use_container_width |-> c.args.use_container_width, page |-> PageOf(c)]
    ELSE [key |-> c.args.key,
          options |-> IF c.args.options = "thumbs"
                      THEN <<encode(":material/thumb_up:"), encode(":material/thumb_down:")>>
                      ELSE <<encode(":material/sentiment_sad:"),
                             encode(":material/sentiment_dissatisfied:"),
                             encode(":material/sentiment_neutral:"),
                             encode(":material/sentiment_satisfied:"),
                             encode(":material/sentiment_very_satisfied:")>>,
          default |-> <<>>, use_container_width |-> FALSE, page |-> PageOf(c)]

\* C6 as stated: two _button_group calls with identical (widget kind, options,
\* default, use_container_width, active page) pass identical arguments to
\* compute_widget_id, and two calls that differ in one of those fields pass
\* different arguments (option lists that differ as values but format to the
\* same strings included).
C6_IdFollowsFields ==
    (GroupCall(prev) /\ GroupCall(call)) =>
        (IdFields(prev) = IdFields(call) <=> prev.id_args = call.id_args)

\* C6 as amended: two _button_group calls pass identical arguments to
\* compute_widget_id exactly when they agree on the key, on the options as
\* formatted by format_func, on the default (None counting as the empty
\* list), on use_container_width and on the active page; the widget name is
\* always "button_group", and option lists that format to the same strings
\* are not distinguished.
C6_IdFollowsKeyAndFormattedOptions ==
    (GroupCall(prev) /\ GroupCall(call)) =>
        /\ (IdKey(prev) = IdKey(call) <=> prev.id_args = call.id_args)
        /\ call.id_args[1].element_type = "button_group"

C6_Witness ==
    /\ GroupCall(prev) /\ GroupCall(call)
    /\ prev.op = "button_group" /\ call.op = "button_group"
    /\ prev.args.options = <<"a">> /\ call.args.options = <<"A">>
    /\ prev.args.format_func = "upper" /\ call.args.format_func = "upper"
    /\ prev.id_args = call.id_args

PageLinkCalled == call.op = "page_link"

ExternalLink == PageLinkCalled /\ ~call.args.page.is_page /\ is_url(call.args.page.str)

\* C9: page_link with an external URL and a label that is None or empty
\* raises StreamlitAPIException and enqueues nothing; with a non-empty label
\* it enqueues exactly one page_link message with external = True, page the
\* URL and an empty page_script_hash, without consulting the pages manager.
C9_ExternalLink ==
    ExternalLink =>
        /\ events \in {<<>>, <<"enqueue">>}
        /\ (call.args.label \in {None, Some(<<>>)}) =>
               (call.raised /\ call.exc = APIException /\ queue = <<>>)
        /\ (call.args.label \notin {None, Some(<<>>)}) =>
               /\ ~call.raised
               /\ Len(queue) = 1
               /\ queue[1].msg_type = "page_link"
               /\ queue[1].external = TRUE
               /\ queue[1].page = call.args.page.str
               /\ queue[1].page_script_hash = ""
               /\ queue[1].label = call.args.label[1]

C9_Witness ==
    /\ ExternalLink /\ ctx # None /\ pagesTable # <<>>
    /\ call.args.label = Some(<<"G", "o">>)
    /\ Len(queue) = 1 /\ queue[1].external

PathLink == PageLinkCalled /\ ~call.args.page.is_page /\ ~is_url(call.args.page.str)

\* The path the link asks for, from the main script's directory.
AskedPath ==
    IF call.args.page.str \in {<<"a.py">>, <<"./", "a.py">>} THEN <<"/app/", "a.py">>
    ELSE IF call.args.page.str = <<"pages/", "b.py">> THEN <<"/app/", "pages/", "b.py">>
    ELSE <<"/app/", "nope.py">>

Registered == {k \in 1..Len(pagesTable) : pagesTable[k].script_path = AskedPath}

\* C10: page_link with a non-URL path string raises StreamlitAPIException
\* and enqueues nothing whenever no registered page has the resolved path as
\* script_path (every call without a script-run context included); when one
\* matches, the enqueued message carries that page's page_script_hash and
\* page_name.
C10_PathLink ==
    PathLink =>
        /\ (ctx = None \/ Registered = {}) =>
               (call.raised /\ call.exc = APIException /\ queue = <<>>)
        /\ (ctx # None /\ Registered # {}) =>
               /\ ~call.raised
               /\ Len(queue) = 1
               /\ queue[1].msg_type = "page_link"
               /\ \E k \in Registered :
                    /\ queue[1].page_script_hash = pagesTable[k].page_script_hash
                    /\ queue[1].page = pagesTable[k].page_name

C10_Witness ==
    /\ PathLink /\ ctx # None
    /\ call.args.page.str = <<"./", "a.py">>
    /\ Cardinality(Registered) = 2
    /\ Len(queue) = 1
    /\ queue[1].page_script_hash = pagesTable[1].page_script_hash

\* ------------------------------------------------------- buttons: claims

ButtonCalled == call.op \in {"button", "download_button", "link_button"}

\* C8: button, download_button and link_button each raise
\* StreamlitAPIException when type is neither "primary" nor "secondary",
\* before the widget identifier is computed, before register_widget is
\* called and before any message is enqueued.
C8_TypeChecked ==
    (ButtonCalled /\ call.args.type \notin {"primary", "secondary"}) =>
        /\ call.raised /\ call.exc = APIException
        /\ events = <<>>
        /\ queue = <<>>
        /\ mediaFiles = <<>>

C8_Witness ==
    /\ call.op = "download_button" /\ call.args.type = "tertiary"
    /\ call.raised /\ runtime /\ ~call.in_form
    /\ call.args.data.kind = "bytes"

\* C14: button and download_button return True only when the client reported
\* a click: ButtonSerde.deserialize gives False for None and for False and
\* True for True, a run in which no click was delivered returns False, and
\* the message sent carries default = False.
C14_ClickReported ==
    (call.op \in {"button", "download_button"} /\ ~call.raised) =>
        /\ button_deserialize(None) = FALSE
        /\ button_deserialize(Some(FALSE)) = FALSE
        /\ button_deserialize(Some(TRUE)) = TRUE
        /\ call.value = TRUE => call.ui_value = Some(TRUE)
        /\ call.ui_value \in {None, Some(FALSE)} => call.value = FALSE
        /\ Len(queue) = 1 /\ queue[1].default = FALSE

C14_Witness ==
    /\ call.op = "download_button" /\ ~call.raised /\ ctx # None
    /\ call.ui_value = Some(FALSE) /\ call.value = FALSE
    /\ queue[1].default = FALSE

\* The default MIME type of a kind of data, "" for a kind that is rejected.
MimeOfKind(kind) ==
    IF kind \in {"str", "TextIOWrapper"} THEN "text/plain"
    ELSE IF kind \in {"bytes", "BytesIO", "BufferedReader", "RawIOBase"}
    THEN "application/octet-stream" ELSE ""

\* A download_button call that reaches marshall_file.
Marshalled ==
    call.op = "download_button" /\ ~call.in_form /\ type_allowed(call.args.type)

\* C15: marshall_file takes the MIME type from the kind of data when mime is
\* None (text/plain for str and textual files, application/octet-stream for
\* bytes and binary files) and keeps every mime the caller supplied; any
\* other kind of data raises RuntimeError and stores no media file; without
\* a runtime the url of the proto is the empty string.
C15_MimeChosen ==
    Marshalled =>
        /\ MimeOfKind(call.args.data.kind) = "" =>
              (call.raised /\ call.exc = "RuntimeError" /\ mediaFiles = <<>>)
        /\ MimeOfKind(call.args.data.kind) # "" =>
              /\ ~call.raised
              /\ runtime =>
                    /\ Len(mediaFiles) = 1
                    /\ mediaFiles[1].mimetype =
                          IF call.args.mime = None THEN MimeOfKind(call.args.data.kind)
                          ELSE call.args.mime[1]
              /\ ~runtime => (mediaFiles = <<>> /\ queue[1].url = <<>>)

\* A call that reaches the form checks of _button.
FormChecked ==
    \/ call.op = "button" /\ type_allowed(call.args.type)
    \/ call.op = "form_submit_button"

\* C16: with a runtime, _button raises StreamlitAPIException for a
\* non-submitter button inside a form and for a form-submitter button
\* outside a form, before register_widget is called and before any message
\* is enqueued; without a runtime neither check is made and the button is
\* registered and enqueued.
C16_FormChecks ==
    FormChecked =>
        /\ (runtime /\ call.in_form = (call.op = "button")) =>
              /\ call.raised /\ call.exc = APIException
              /\ events = <<"compute_widget_id">>
              /\ queue = <<>>
        /\ ~runtime =>
              /\ ~call.raised
              /\ \E k \in 1..Len(events) : events[k] = "register_widget"
              /\ Len(queue) = 1 /\ queue[1].msg_type = "button"
              /\ queue[1].is_form_submitter = (call.op = "form_submit_button")

C16_Witness ==
    /\ call.op = "form_submit_button" /\ runtime /\ ~call.in_form
    /\ call.raised /\ call.error = "submit_outside_form"
    /\ queue = <<>>

\* C17: download_button inside a form raises StreamlitAPIException whether
\* or not the runtime exists; no media file has been added, no widget has
\* been registered and no message has been enqueued.
C17_DownloadInForm ==
    (call.op = "download_button" /\ call.in_form) =>
        /\ call.raised /\ call.exc = APIException
        /\ mediaFiles = <<>>
        /\ \A k \in 1..Len(events) : events[k] \notin {"register_widget", "enqueue"}
        /\ queue = <<>>

C17_Witness ==
    /\ call.op = "download_button" /\ call.in_form /\ ~runtime
    /\ call.raised /\ call.error = "download_button_in_form"
    /\ call.args.data.kind = "str"
    /\ mediaFiles = <<>>

\* A call of _button, _download_button or _button_group that returned.
StatefulReturned ==
    /\ call.op \in {"button", "download_button", "form_submit_button",
                     "button_group", "feedback"}
    /\ ~call.raised

\* The positions of a runtime call in the trace of the last API call.
StepsOf(e) == {k \in 1..Len(events) : events[k] = e}

\* What the state store answers for the last call: the deserializer applied
\* to what the client reported, to None without a script-run context.
Stored ==
    CASE call.op = "button_group" ->
            options_deserialize(ButtonGroupOptionsSerde(call.args.options),
                                IF ctx = None THEN NoList ELSE call.ui_value)
      [] call.op = "feedback" ->
            feedback_deserialize(
                ButtonGroupFeedbackSerde(index_to_score_mapping_of(call.args.options)),
                IF ctx = None THEN NoList ELSE call.ui_value).value
      [] OTHER -> button_deserialize(IF ctx = None THEN None ELSE call.ui_value)

\* C18: each successful call of _button, _download_button and _button_group
\* computes the identifier, then registers the widget, then enqueues the
\* message: register_widget is called exactly once, before the single
\* enqueue of the proto carrying the identifier, and the value returned is
\* the one register_widget produced.
C18_RegisterThenEnqueue ==
    StatefulReturned =>
        /\ Cardinality(StepsOf("compute_widget_id")) = 1
        /\ Cardinality(StepsOf("register_widget")) = 1
        /\ Cardinality(StepsOf("enqueue")) = 1
        /\ \A i \in StepsOf("compute_widget_id"), j \in StepsOf("register_widget"),
              k \in StepsOf("enqueue") : i < j /\ j < k
        /\ Len(queue) = 1
        /\ queue[1].msg_type = IF call.op = "form_submit_button" THEN "button"
                               ELSE IF call.op = "feedback" THEN "button_group"
                               ELSE call.op
        /\ queue[1].id.element_type = queue[1].msg_type
        /\ call.value = Stored

C18_Witness ==
    /\ StatefulReturned /\ call.op = "download_button" /\ runtime
    /\ events = <<"compute_widget_id", "media_file_mgr.add", "register_widget", "enqueue">>
    /\ Len(queue) = 1 /\ Len(mediaFiles) = 1
    /\ call.ui_value = Some(TRUE) /\ call.value = TRUE

\* C21: without a script-run context navigation returns None for every
\* argument (an empty page list, several default pages and duplicate pages
\* included): nothing is raised, no page object is modified, nothing is
\* enqueued and set_pages is not called.
C21_NoContext ==
    (call.op = "navigation" /\ ctx = None) =>
        /\ ~call.raised
        /\ call.ret = 0
        /\ call.objs = ArgPages
        /\ events = <<>>
        /\ queue = <<>>
        /\ pagesTable = <<>>

C21_Witness ==
    /\ call.op = "navigation" /\ ctx = None
    /\ Len(ArgPages) = 2
    /\ ArgPages[1].default /\ ArgPages[2].default
    /\ ArgPages[1].script_hash = ArgPages[2].script_hash
    /\ ~call.raised /\ call.ret = 0

\* C22: ButtonGroupFeedbackSerde round-trips scores: with the thumbs
\* mapping [1, 0] and with no mapping, deserialize(serialize(s)) = s for
\* every valid score s, and serialize(None) deserializes to None.
C22_FeedbackRoundTrip ==
    call.op = "feedback_serde" =>
        /\ ~call.value_back.raised
        /\ call.value_back.value = call.value

\* C23: for button_group, when the UI value is None the value the script
\* sees is the list of the options at exactly the indices of the message's
\* default field (the positions where the default argument is True).
C23_DefaultAgrees ==
    (call.op = "button_group" /\ ~call.raised /\ (ctx = None \/ call.ui_value.is_none)) =>
        /\ Len(queue) = 1
        /\ Len(call.value) = Len(queue[1].default)
        /\ \A k \in 1..Len(call.value) :
               call.value[k] = call.args.options[queue[1].default[k] + 1]

\* What the wrapper must forward as keyword arguments.
ForwardedKwargs ==
    IF call.key = None THEN call.kwargs
    ELSE {p \in call.kwargs : p[1] # "_st_value"} \cup
         {<<"_st_value",
            IF \E p \in ctx[1].session_state : p[1] = call.key[1]
            THEN (CHOOSE p \in ctx[1].session_state : p[1] = call.key[1])[2]
            ELSE None>>}

\* C24: the wrapper feedback installs calls the script's on_click exactly
\* once per invocation: with key None it forwards the arguments unchanged,
\* with a key it adds the keyword _st_value, equal to session_state[key]
\* when the key is in the session state and None otherwise; with no
\* on_click no callback is registered.
C24_CallbackWrapper ==
    /\ (call.op = "feedback" /\ ~call.raised) =>
          (call.args.on_click = None <=> call.on_change_handler = None)
    /\ call.op = "_on_click" =>
          /\ Len(call.calls) = 1
          /\ call.calls[1].fn = "on_click"
          /\ call.calls[1].args = call.args
          /\ call.calls[1].kwargs = ForwardedKwargs

C24_Witness ==
    /\ call.op = "_on_click" /\ call.key = Some("k")
    /\ ctx[1].session_state = {<<"j", Some(1)>>, <<"k", Some(0)>>}
    /\ call.kwargs = {<<"who", Some(7)>>}
    /\ call.calls[1].kwargs = {<<"who", Some(7)>>, <<"_st_value", Some(0)>>}

====
